---- MODULE Spec2Model ----
(***************************************************************************)
(* Red-black tree of main.go: Put, Delete, Get, Has, GetParent, Size, the  *)
(* rotations and the range query, over an arena of nodes addressed by      *)
(* integers.                                                               *)
(* A pointer is a node address, Nil is the nil pointer.  Every operator    *)
(* that the code runs on a *Tree takes and returns a tree value            *)
(* t = [Root, nodes].  A loop of the code is an operator for one iteration *)
(* plus a driver that repeats it; a nil dereference ends the call as       *)
(* "panic", an iteration that changes nothing ends it as "hang".           *)
(***************************************************************************)
EXTENDS Integers, Sequences, FiniteSets, TLC

\* ---------------------------------------------------------------- bounds
MaxKey == 5
MaxPayload == 2
\* keys of the client that builds deeper trees
MaxDeepKey == 7

Keys == 1..MaxKey
DeepKeys == 1..MaxDeepKey
Payloads == 1..MaxPayload
\* one address more than there are keys: a Put that misses a key that is
\* present would still find room for its second node
MaxNodes == MaxKey + 1
NodeIds == 1..MaxNodes
\* iterations a fix-up loop is followed for before it is given up
LoopFuel == 2 * MaxNodes + 2

\* ------------------------------------------------------------- constants
Nil == 0
BLACK == TRUE
RED == FALSE
LEFT == 1
RIGHT == 2
NODIR == 3

ErrorKeyIsNil == "The literal nil not allowed as keys"
ErrorKeyDisallowed == "Disallowed key type"
NoError == "nil"

\* the zero value of Node
ZeroNode ==
  [Key |-> 0, payload |-> 0, color |-> RED, Left |-> Nil, Right |-> Nil,
   Leaf |-> FALSE, parent |-> Nil]

\* NewTree(): Root nil
NewTree == [Root |-> Nil, nodes |-> [i \in NodeIds |-> ZeroNode]]

\* ----------------------------------------------------------------- keys
\* A key is an interface{} value: its dynamic kind and, for an int, its value.
IntKey(k) == [kind |-> "int", val |-> k]
InvalidKinds == {"nil", "chan", "func", "map", "ptr", "slice"}
InvalidKeys == {[kind |-> c, val |-> 0] : c \in InvalidKinds}

\* mustBeValidKey without its "key == nil" test
mustBeValidKey_NoNilCheck(key) ==
  IF key.kind \in {"chan", "func", "interface", "map", "ptr", "slice"}
  THEN ErrorKeyDisallowed
  ELSE NoError

mustBeValidKey(key) ==
  IF key.kind = "nil" THEN ErrorKeyIsNil
  ELSE IF key.kind \in {"chan", "func", "interface", "map", "ptr", "slice"}
       THEN ErrorKeyDisallowed
  ELSE NoError

IntComparator(o1, o2) ==
  IF o1 > o2 THEN 1 ELSE IF o1 < o2 THEN -1 ELSE 0

\* --------------------------------------------------------------- helpers
isRed(t, n) == IF n = Nil THEN FALSE ELSE t.nodes[n].color = RED

SetField(t, n, f, v) == [t EXCEPT !.nodes[n][f] = v]

\* ---------------------------------------------------------------- lookup
RECURSIVE internalLookup(_, _, _, _, _)
internalLookup(t, parent, this, key, dir) ==
  IF this = Nil THEN <<FALSE, parent, dir>>
  ELSE IF IntComparator(key.val, t.nodes[this].Key) = 0 THEN <<TRUE, parent, dir>>
  ELSE IF IntComparator(key.val, t.nodes[this].Key) < 0
       THEN internalLookup(t, this, t.nodes[this].Left, key, LEFT)
  ELSE IF IntComparator(key.val, t.nodes[this].Key) > 0
       THEN internalLookup(t, this, t.nodes[this].Right, key, RIGHT)
  ELSE <<FALSE, parent, NODIR>>

\* <<found, parent, dir>>
GetParent(t, key) ==
  IF mustBeValidKey(key) # NoError THEN <<FALSE, Nil, NODIR>>
  ELSE IF t.Root = Nil THEN <<FALSE, Nil, NODIR>>
  ELSE internalLookup(t, Nil, t.Root, key, NODIR)

\* getNode after "found, parent, dir := t.GetParent(key)": <<ok, node>>
childAt(t, r) ==
  IF ~r[1] THEN <<FALSE, Nil>>
  ELSE IF r[2] = Nil THEN <<TRUE, t.Root>>
  ELSE IF r[3] = LEFT /\ t.nodes[r[2]].Left # Nil THEN <<TRUE, t.nodes[r[2]].Left>>
  ELSE IF r[3] = RIGHT /\ t.nodes[r[2]].Right # Nil THEN <<TRUE, t.nodes[r[2]].Right>>
  ELSE <<FALSE, Nil>>

getNode(t, key) == childAt(t, GetParent(t, key))

\* Get after "ok, node := t.getNode(key)": <<found, payload>>, the nil payload is 0
payloadOf(t, r) == IF r[1] THEN <<TRUE, t.nodes[r[2]].payload>> ELSE <<FALSE, 0>>

Get(t, key) ==
  IF mustBeValidKey(key) # NoError THEN <<FALSE, 0>>
  ELSE payloadOf(t, getNode(t, key))

Has(t, key) ==
  IF mustBeValidKey(key) # NoError THEN FALSE
  ELSE internalLookup(t, Nil, t.Root, key, NODIR)[1]

\* getMinimum walking down x.Right instead of x.Left
getMinimum_Rightmost(t, x) ==
  LET RECURSIVE down(_)
      down(n) == IF t.nodes[n].Right # Nil THEN down(t.nodes[n].Right) ELSE n
  IN down(x)

getMinimum(t, x) ==
  LET RECURSIVE down(_)
      down(n) == IF t.nodes[n].Left # Nil THEN down(t.nodes[n].Left) ELSE n
  IN down(x)

\* countingVisitor.Visit
RECURSIVE countingVisit(_, _)
countingVisit(t, node) ==
  IF node = Nil THEN 0
  ELSE countingVisit(t, t.nodes[node].Left) + 1 + countingVisit(t, t.nodes[node].Right)

Size(t) == countingVisit(t, t.Root)

\* ------------------------------------------------------------- rotations
\* if u.parent == nil { t.Root = v } else if u == u.parent.Left
\* { u.parent.Left = v } else { u.parent.Right = v }: the statement by which
\* RotateRight, RotateLeft and transplant each put v in u's place
replaceChild(t, u, v) ==
  IF t.nodes[u].parent = Nil THEN [t EXCEPT !.Root = v]
  ELSE IF u = t.nodes[t.nodes[u].parent].Left
       THEN SetField(t, t.nodes[u].parent, "Left", v)
  ELSE SetField(t, t.nodes[u].parent, "Right", v)

\* if c != nil { c.parent = p }
setParentIfAny(t, c, p) == IF c # Nil THEN SetField(t, c, "parent", p) ELSE t

\* a.parent = b.parent
copyParent(t, a, b) == SetField(t, a, "parent", t.nodes[b].parent)

\* rotateRightLinks without "if x.Right != nil { x.Right.parent = y }"
rotateRightLinks_StaleParent(t, y, x) ==
  SetField(
    SetField(
      replaceChild(copyParent(SetField(t, y, "Left", t.nodes[x].Right), x, y), y, x),
      x, "Right", y),
    y, "parent", x)

\* RotateRight from "x := y.Left" on, statement by statement
rotateRightLinks(t, y, x) ==
  SetField(
    SetField(
      replaceChild(
        copyParent(
          setParentIfAny(SetField(t, y, "Left", t.nodes[x].Right), t.nodes[x].Right, y),
          x, y),
        y, x),
      x, "Right", y),
    y, "parent", x)

RotateRight(t, y) ==
  IF y = Nil THEN t
  ELSE IF t.nodes[y].Left = Nil THEN t
  ELSE rotateRightLinks(t, y, t.nodes[y].Left)

\* rotateLeftLinks that always makes y the root instead of putting it in
\* x's place under x's parent
rotateLeftLinks_AlwaysRoot(t, x, y) ==
  SetField(
    SetField(
      [copyParent(
         setParentIfAny(SetField(t, x, "Right", t.nodes[y].Left), t.nodes[y].Left, x),
         y, x) EXCEPT !.Root = y],
      y, "Left", x),
    x, "parent", y)

\* RotateLeft from "y := x.Right" on, statement by statement
rotateLeftLinks(t, x, y) ==
  SetField(
    SetField(
      replaceChild(
        copyParent(
          setParentIfAny(SetField(t, x, "Right", t.nodes[y].Left), t.nodes[y].Left, x),
          y, x),
        x, y),
      y, "Left", x),
    x, "parent", y)

\* RotateLeft that turns the other way when x has no right child
RotateLeft_TurnsRight(t, x) ==
  IF x = Nil THEN t
  ELSE IF t.nodes[x].Right = Nil THEN RotateRight(t, x)
  ELSE rotateLeftLinks(t, x, t.nodes[x].Right)

RotateLeft(t, x) ==
  IF x = Nil THEN t
  ELSE IF t.nodes[x].Right = Nil THEN t
  ELSE rotateLeftLinks(t, x, t.nodes[x].Right)

\* ------------------------------------------------------------ allocation
\* The nodes the program can still reach from the tree: the closure of the
\* root under the three pointer fields.  Every other address is garbage.
Pointers(t, S) ==
  {t.nodes[n].Left : n \in S} \cup {t.nodes[n].Right : n \in S}
    \cup {t.nodes[n].parent : n \in S}

RECURSIVE Closure(_, _)
grow(t, S, next) == IF next = S THEN S ELSE Closure(t, next)

Closure(t, S) == grow(t, S, S \cup (Pointers(t, S) \ {Nil}))

Live(t) == Closure(t, {t.Root} \ {Nil})

\* &Node{...}: a fresh address.  Addresses carry no meaning to the program,
\* so the allocator hands out the address numbered like the key when it is
\* free and the least free address otherwise.
pickAddr(free, key) ==
  IF key.val \in free THEN key.val
  ELSE IF free = {} THEN Nil
  ELSE CHOOSE a \in free : \A b \in free : a <= b

NewNodeAddr(t, key) == pickAddr((DOMAIN t.nodes) \ Live(t), key)

\* garbage collection: an unreachable node is gone
sweep(t, live) ==
  [t EXCEPT !.nodes =
     [i \in DOMAIN t.nodes |-> IF i \in live THEN t.nodes[i] ELSE ZeroNode]]

Collect(t) == sweep(t, Live(t))

\* ------------------------------------------------------------- insertion
\* The result of one iteration of a fix-up loop: the tree and the loop
\* variable after it, and st = "break" (left the loop), "loop" (goes round
\* again) or "panic" (a nil pointer was dereferenced).

\* case 1: z.parent.color = BLACK; y.color = BLACK; grandparent.color = RED;
\* z = grandparent
putCase1(t, p, y, grandparent) ==
  [t |-> SetField(SetField(SetField(t, p, "color", BLACK), y, "color", BLACK),
                  grandparent, "color", RED),
   z |-> grandparent, st |-> "loop"]

\* case 3, parent on the left: z.parent.color = BLACK; grandparent.color = RED;
\* RotateRight(grandparent)
putCase3Left(t, z, grandparent) ==
  IF t.nodes[z].parent = Nil THEN [t |-> t, z |-> z, st |-> "panic"]
  ELSE [t |-> RotateRight(SetField(SetField(t, t.nodes[z].parent, "color", BLACK),
                                   grandparent, "color", RED), grandparent),
        z |-> z, st |-> "loop"]

\* case 3, parent on the right
putCase3Right(t, z, grandparent) ==
  IF t.nodes[z].parent = Nil THEN [t |-> t, z |-> z, st |-> "panic"]
  ELSE [t |-> RotateLeft(SetField(SetField(t, t.nodes[z].parent, "color", BLACK),
                                  grandparent, "color", RED), grandparent),
        z |-> z, st |-> "loop"]

\* z.parent == grandparent.Left; case 2 is "z = z.parent; RotateLeft(z)"
fixupPutLeft(t, z, p, grandparent) ==
  IF isRed(t, t.nodes[grandparent].Right)
  THEN putCase1(t, p, t.nodes[grandparent].Right, grandparent)
  ELSE IF z = t.nodes[p].Right
  THEN putCase3Left(RotateLeft(t, p), p, grandparent)
  ELSE putCase3Left(t, z, grandparent)

\* z.parent == grandparent.Right; case 2 is "z = z.parent; RotateRight(z)"
fixupPutRight(t, z, p, grandparent) ==
  IF isRed(t, t.nodes[grandparent].Left)
  THEN putCase1(t, p, t.nodes[grandparent].Left, grandparent)
  ELSE IF z = t.nodes[p].Left
  THEN putCase3Right(RotateRight(t, p), p, grandparent)
  ELSE putCase3Right(t, z, grandparent)

\* one iteration of the loop of fixupPut at z
fixupPutIter(t, z) ==
  IF t.nodes[z].parent = Nil THEN [t |-> t, z |-> z, st |-> "break"]
  ELSE IF t.nodes[t.nodes[z].parent].color = BLACK THEN [t |-> t, z |-> z, st |-> "break"]
  ELSE IF t.nodes[t.nodes[z].parent].parent = Nil THEN [t |-> t, z |-> z, st |-> "panic"]
  ELSE IF t.nodes[z].parent = t.nodes[t.nodes[t.nodes[z].parent].parent].Left
  THEN fixupPutLeft(t, z, t.nodes[z].parent, t.nodes[t.nodes[z].parent].parent)
  ELSE fixupPutRight(t, z, t.nodes[z].parent, t.nodes[t.nodes[z].parent].parent)

\* The loop of fixupPut: [t, st], st = "ok" when the loop is left, else
\* "panic", "hang" (an iteration changed nothing, so every later one does
\* the same) or "fuel" (LoopFuel iterations were not enough).
RECURSIVE fixupPutLoop(_, _, _)
fixupPutNext(t, z, fuel, r) ==
  IF r.st = "break" THEN [t |-> r.t, st |-> "ok"]
  ELSE IF r.st = "panic" THEN [t |-> r.t, st |-> "panic"]
  ELSE IF r.t = t /\ r.z = z THEN [t |-> t, st |-> "hang"]
  ELSE IF fuel = 0 THEN [t |-> r.t, st |-> "fuel"]
  ELSE fixupPutLoop(r.t, r.z, fuel - 1)

fixupPutLoop(t, z, fuel) == fixupPutNext(t, z, fuel, fixupPutIter(t, z))

\* fixupPut without its last statement
blackenRoot_Skip(r) == r

\* t.Root.color = BLACK, after the loop
blackenRoot(r) ==
  IF r.st # "ok" THEN r
  ELSE IF r.t.Root = Nil THEN [t |-> r.t, st |-> "panic"]
  ELSE [t |-> SetField(r.t, r.t.Root, "color", BLACK), st |-> "ok"]

\* fixupPut that never enters its loop
fixupPut_NoLoop(t, z) == blackenRoot([t |-> t, st |-> "ok"])

fixupPut(t, z) == blackenRoot(fixupPutLoop(t, z, LoopFuel))

\* what Put returns: the tree, the error (none), and how the call ended
returned(f) == [t |-> f.t, err |-> NoError, st |-> f.st]

\* Put, the key found, writing to the root whatever node matched
overwrite_RootOnly(t, parent, dir, data) ==
  returned([t |-> SetField(t, t.Root, "payload", data), st |-> "ok"])

\* Put, the key found: the payload of the matched node is overwritten
overwrite(t, parent, dir, data) ==
  IF parent = Nil
  THEN returned([t |-> SetField(t, t.Root, "payload", data), st |-> "ok"])
  ELSE IF dir = LEFT
  THEN IF t.nodes[parent].Left = Nil THEN returned([t |-> t, st |-> "panic"])
       ELSE returned([t |-> SetField(t, t.nodes[parent].Left, "payload", data), st |-> "ok"])
  ELSE IF dir = RIGHT
  THEN IF t.nodes[parent].Right = Nil THEN returned([t |-> t, st |-> "panic"])
       ELSE returned([t |-> SetField(t, t.nodes[parent].Right, "payload", data), st |-> "ok"])
  ELSE returned([t |-> t, st |-> "ok"])

\* newNode := &Node{Key: key, parent: parent, payload: data}, hung under
\* parent on side dir
link(t, key, data, parent, dir, newNode) ==
  IF dir = LEFT THEN SetField(t, parent, "Left", newNode)
  ELSE IF dir = RIGHT THEN SetField(t, parent, "Right", newNode)
  ELSE t

newRed(t, key, data, parent, newNode) ==
  [t EXCEPT !.nodes[newNode] =
     [ZeroNode EXCEPT !.Key = key.val, !.parent = parent, !.payload = data]]

attachAt(t, key, data, parent, dir, newNode) ==
  returned(fixupPut(link(newRed(t, key, data, parent, newNode),
                         key, data, parent, dir, newNode), newNode))

\* Put, the key not found: a new Red node under parent, then fixupPut
attach(t, key, data, parent, dir) ==
  IF parent # Nil THEN attachAt(t, key, data, parent, dir, NewNodeAddr(t, key))
  ELSE returned([t |-> t, st |-> "ok"])

\* t.Root = &Node{Key: key, color: BLACK, payload: data}
newRoot(t, key, data, a) ==
  [Root |-> a,
   nodes |-> [t.nodes EXCEPT ![a] =
                [ZeroNode EXCEPT !.Key = key.val, !.color = BLACK, !.payload = data]]]

\* putAt that hangs a new node under the parent even when the key was found
putAt_Reattach(t, key, data, r) == attach(t, key, data, r[2], r[3])

putAt(t, key, data, r) ==
  IF r[1] THEN overwrite(t, r[2], r[3], data) ELSE attach(t, key, data, r[2], r[3])

\* Put(key, data): the tree after it, the error returned, and how the call ended
Put(t, key, data) ==
  IF mustBeValidKey(key) # NoError
  THEN [t |-> t, err |-> mustBeValidKey(key), st |-> "ok"]
  ELSE IF t.Root = Nil
  THEN returned([t |-> newRoot(t, key, data, NewNodeAddr(t, key)), st |-> "ok"])
  ELSE putAt(t, key, data, internalLookup(t, Nil, t.Root, key, NODIR))

\* -------------------------------------------------------------- deletion
\* transplant that never tests "u == u.parent.Left"
transplant_AlwaysRight(t, u, v) ==
  IF t.nodes[u].parent = Nil
  THEN setParentIfAny([t EXCEPT !.Root = v], v, Nil)
  ELSE setParentIfAny(SetField(t, t.nodes[u].parent, "Right", v), v, t.nodes[u].parent)

\* transplant without "if v != nil && u != nil { v.parent = u.parent }"
transplant_KeepParent(t, u, v) == replaceChild(t, u, v)

transplant(t, u, v) ==
  IF v # Nil /\ u # Nil
  THEN SetField(replaceChild(t, u, v), v, "parent", t.nodes[u].parent)
  ELSE replaceChild(t, u, v)

\* x = t.Root, at the end of case 4
restartAtRoot(t) == [t |-> t, x |-> t.Root, st |-> "loop"]

\* x == x.parent.Right, "if isRed(w.Left)": case 4
\* w.color = x.parent.color; x.parent.color = BLACK; w.Left.color = BLACK;
\* RotateRight(x.parent); x = t.Root
delRightCase4(t, x, w) ==
  IF w = Nil THEN [t |-> t, x |-> x, st |-> "panic"]
  ELSE IF ~isRed(t, t.nodes[w].Left) THEN [t |-> t, x |-> x, st |-> "loop"]
  ELSE IF t.nodes[x].parent = Nil THEN [t |-> t, x |-> x, st |-> "panic"]
  ELSE restartAtRoot(
         RotateRight(
           SetField(
             SetField(SetField(t, w, "color", t.nodes[t.nodes[x].parent].color),
                      t.nodes[x].parent, "color", BLACK),
             t.nodes[w].Left, "color", BLACK),
           t.nodes[x].parent))

\* after case 3: w = x.parent.Left
delRightRefresh(t, x) == delRightCase4(t, x, t.nodes[t.nodes[x].parent].Left)

\* x == x.parent.Right, "if w != nil": cases 2 and 3, then case 4
delRightCases(t, x, w) ==
  IF w = Nil THEN [t |-> t, x |-> x, st |-> "loop"]
  ELSE IF ~isRed(t, t.nodes[w].Left) /\ ~isRed(t, t.nodes[w].Right)
  THEN \* case 2: w.color = RED; x = x.parent
       delRightCase4(SetField(t, w, "color", RED), t.nodes[x].parent, w)
  ELSE IF isRed(t, t.nodes[w].Right) /\ ~isRed(t, t.nodes[w].Left)
  THEN \* case 3: w.Right.color = BLACK; w.color = RED; RotateLeft(w)
       delRightRefresh(
         RotateLeft(SetField(SetField(t, t.nodes[w].Right, "color", BLACK),
                             w, "color", RED), w), x)
  ELSE delRightCase4(t, x, w)

\* w as the cases see it: x.parent.Left, read again after case 1
delRightSibling(t, x) == delRightCases(t, x, t.nodes[t.nodes[x].parent].Left)

\* case x == x.parent.Right of the loop of fixupDelete; case 1 is
\* w.color = BLACK; x.parent.color = RED; RotateRight(x.parent)
fixupDeleteRight(t, x) ==
  IF isRed(t, t.nodes[t.nodes[x].parent].Left)
  THEN delRightSibling(
         RotateRight(SetField(SetField(t, t.nodes[t.nodes[x].parent].Left, "color", BLACK),
                              t.nodes[x].parent, "color", RED),
                     t.nodes[x].parent), x)
  ELSE delRightSibling(t, x)

\* x == x.parent.Left, "if isRed(w.Right)": case 4
delLeftCase4(t, x, w) ==
  IF w = Nil THEN [t |-> t, x |-> x, st |-> "panic"]
  ELSE IF ~isRed(t, t.nodes[w].Right) THEN [t |-> t, x |-> x, st |-> "loop"]
  ELSE IF t.nodes[x].parent = Nil THEN [t |-> t, x |-> x, st |-> "panic"]
  ELSE restartAtRoot(
         RotateLeft(
           SetField(
             SetField(SetField(t, w, "color", t.nodes[t.nodes[x].parent].color),
                      t.nodes[x].parent, "color", BLACK),
             t.nodes[w].Right, "color", BLACK),
           t.nodes[x].parent))

\* after case 3: w = x.parent.Right
delLeftRefresh(t, x) == delLeftCase4(t, x, t.nodes[t.nodes[x].parent].Right)

\* x == x.parent.Left, "if w != nil": cases 2 and 3, then case 4
delLeftCases(t, x, w) ==
  IF w = Nil THEN [t |-> t, x |-> x, st |-> "loop"]
  ELSE IF ~isRed(t, t.nodes[w].Left) /\ ~isRed(t, t.nodes[w].Right)
  THEN \* case 2: w.color = RED; x = x.parent
       delLeftCase4(SetField(t, w, "color", RED), t.nodes[x].parent, w)
  ELSE IF isRed(t, t.nodes[w].Left) /\ ~isRed(t, t.nodes[w].Right)
  THEN \* case 3: w.Left.color = BLACK; w.color = RED; RotateRight(w)
       delLeftRefresh(
         RotateRight(SetField(SetField(t, t.nodes[w].Left, "color", BLACK),
                              w, "color", RED), w), x)
  ELSE delLeftCase4(t, x, w)

delLeftSibling(t, x) == delLeftCases(t, x, t.nodes[t.nodes[x].parent].Right)

\* case x == x.parent.Left of the loop of fixupDelete
fixupDeleteLeft(t, x) ==
  IF isRed(t, t.nodes[t.nodes[x].parent].Right)
  THEN delLeftSibling(
         RotateLeft(SetField(SetField(t, t.nodes[t.nodes[x].parent].Right, "color", BLACK),
                             t.nodes[x].parent, "color", RED),
                    t.nodes[x].parent), x)
  ELSE delLeftSibling(t, x)

\* one iteration of the loop of fixupDelete at x (x is not nil); when no
\* case of the switch matches the iteration does nothing
fixupDeleteIter(t, x) ==
  IF x = t.Root THEN [t |-> t, x |-> x, st |-> "break"]
  ELSE IF t.nodes[x].color = RED THEN [t |-> t, x |-> x, st |-> "break"]
  ELSE IF t.nodes[x].parent = Nil THEN [t |-> t, x |-> x, st |-> "panic"]
  ELSE IF x = t.nodes[t.nodes[x].parent].Right THEN fixupDeleteRight(t, x)
  ELSE IF x = t.nodes[t.nodes[x].parent].Left THEN fixupDeleteLeft(t, x)
  ELSE [t |-> t, x |-> x, st |-> "loop"]

\* the loop of fixupDelete and, once it is left, x.color = BLACK
RECURSIVE fixupDeleteLoop(_, _, _)
fixupDeleteNext(t, x, fuel, r) ==
  IF r.st = "break" THEN [t |-> SetField(r.t, r.x, "color", BLACK), st |-> "ok"]
  ELSE IF r.st = "panic" THEN [t |-> r.t, st |-> "panic"]
  ELSE IF r.t = t /\ r.x = x THEN [t |-> t, st |-> "hang"]
  ELSE IF fuel = 0 THEN [t |-> r.t, st |-> "fuel"]
  ELSE fixupDeleteLoop(r.t, r.x, fuel - 1)

fixupDeleteLoop(t, x, fuel) == fixupDeleteNext(t, x, fuel, fixupDeleteIter(t, x))

fixupDelete(t, x) ==
  IF x = Nil THEN [t |-> t, st |-> "ok"]
  ELSE fixupDeleteLoop(t, x, LoopFuel)

\* what Delete leaves: the tree, how the call ended, and the branch taken
deleted(f, branch) == [t |-> f.t, st |-> f.st, branch |-> branch]

\* if yOriginalColor == BLACK { t.fixupDelete(x) }
rebalance(t, x, yOriginalColor, branch) ==
  IF yOriginalColor = BLACK THEN deleted(fixupDelete(t, x), branch)
  ELSE deleted([t |-> t, st |-> "ok"], branch)

\* the two-children case without "y.Left = z.Left; y.Left.parent = y"
takeLeftAndColor_NoLeft(t, z, y) == SetField(t, y, "color", t.nodes[z].color)

\* y.Left = z.Left; y.Left.parent = y; y.color = z.color
takeLeftAndColor(t, z, y) ==
  SetField(SetField(SetField(t, y, "Left", t.nodes[z].Left),
                    t.nodes[z].Left, "parent", y),
           y, "color", t.nodes[z].color)

\* y.Right = z.Right; y.Right.parent = y
takeRight(t, z, y) ==
  SetField(SetField(t, y, "Right", t.nodes[z].Right), t.nodes[z].Right, "parent", y)

\* z has two children and y is the minimum of z.Right: x = y.Right
deleteTwo(t, z, y) ==
  IF t.nodes[y].parent = z
  THEN rebalance(
         takeLeftAndColor(
           transplant(setParentIfAny(t, t.nodes[y].Right, y), z, y), z, y),
         t.nodes[y].Right, t.nodes[y].color, "c")
  ELSE rebalance(
         takeLeftAndColor(
           transplant(takeRight(transplant(t, y, t.nodes[y].Right), z, y), z, y), z, y),
         t.nodes[y].Right, t.nodes[y].color, "d")

\* Delete, from "y := z" on: z is the node getNode returned.  Branch "a" is
\* z without a left child, "b" z without a right child, "c" two children
\* with the successor z.Right, "d" two children with a deeper successor.
deleteNode(t, z) ==
  IF z = Nil THEN deleted([t |-> t, st |-> "panic"], "none")
  ELSE IF t.nodes[z].Left = Nil
  THEN rebalance(transplant(t, z, t.nodes[z].Right), t.nodes[z].Right,
                 t.nodes[z].color, "a")
  ELSE IF t.nodes[z].Right = Nil
  THEN rebalance(transplant(t, z, t.nodes[z].Left), t.nodes[z].Left,
                 t.nodes[z].color, "b")
  ELSE deleteTwo(t, z, getMinimum(t, t.nodes[z].Right))

\* Delete without its "if !t.Has(key) { return }"
Delete_NoHasCheck(t, key) == deleteNode(t, getNode(t, key)[2])

\* Delete(key): a no-op ("absent") unless Has(key)
Delete(t, key) ==
  IF ~Has(t, key) THEN deleted([t |-> t, st |-> "ok"], "absent")
  ELSE deleteNode(t, getNode(t, key)[2])

\* ------------------------------------------------------------ the program
\* tree:   the *Tree the client holds
\* status: "ok" while every call so far has returned; "panic" or "hang" once
\*         a call has not
\* mapped: the payload last Put and not since Deleted for each key, 0 for none
\* last:   the call made last: its arguments, the tree it was made on, and
\*         what it returned
VARIABLES tree, status, mapped, last

vars == <<tree, status, mapped, last>>

Init ==
  /\ tree = NewTree
  /\ status = "ok"
  /\ mapped = [k \in Keys |-> 0]
  /\ last = [op |-> "NewTree", key |-> IntKey(0), data |-> 0, err |-> NoError,
             branch |-> "none", pre |-> NewTree]

\* a client call t.Put(key, data) that ends as r
PutReturn(key, data, r) ==
  /\ tree' = Collect(r.t)
  /\ status' = r.st
  /\ mapped' = IF r.err = NoError /\ key.val \in Keys
               THEN [mapped EXCEPT ![key.val] = data] ELSE mapped
  /\ last' = [op |-> "Put", key |-> key, data |-> data, err |-> r.err,
              branch |-> "none", pre |-> tree]

\* a client call t.Delete(key) that ends as r
DeleteReturn(key, r) ==
  /\ tree' = Collect(r.t)
  /\ status' = r.st
  /\ mapped' = IF mustBeValidKey(key) = NoError /\ key.val \in Keys
               THEN [mapped EXCEPT ![key.val] = 0] ELSE mapped
  /\ last' = [op |-> "Delete", key |-> key, data |-> 0, err |-> NoError,
              branch |-> r.branch, pre |-> tree]

\* t.Put(k, data) with an integer key
PutOp ==
  \E k \in Keys, data \in Payloads :
    /\ status = "ok"
    /\ Live(tree) # NodeIds
    /\ PutReturn(IntKey(k), data, Put(tree, IntKey(k), data))

\* t.Delete(k) with an integer key
DeleteOp ==
  \E k \in Keys :
    /\ status = "ok"
    /\ DeleteReturn(IntKey(k), Delete(tree, IntKey(k)))

\* t.Put(key, data) with a key that is nil or of a disallowed kind
PutInvalid ==
  \E key \in InvalidKeys, data \in Payloads :
    /\ status = "ok"
    /\ Live(tree) # NodeIds
    /\ PutReturn(key, data, Put(tree, key, data))

\* t.Delete(key) with a key that is nil or of a disallowed kind
DeleteInvalid ==
  \E key \in InvalidKeys :
    /\ status = "ok"
    /\ DeleteReturn(key, Delete(tree, key))

Next == PutOp \/ DeleteOp

\* clients that pass integer keys only
Spec == Init /\ [][Next]_vars

NextKeys == PutOp \/ DeleteOp \/ PutInvalid \/ DeleteInvalid

\* clients that pass keys of any kind
SpecKeys == Init /\ [][NextKeys]_vars

\* ------------------------------------------------ a client with more keys
\* NewTree() for the client with the keys 1..MaxDeepKey
NewDeepTree == [Root |-> Nil, nodes |-> [i \in 1..(MaxDeepKey + 1) |-> ZeroNode]]

InitDeep ==
  /\ tree = NewDeepTree
  /\ status = "ok"
  /\ mapped = [k \in Keys |-> 0]
  /\ last = [op |-> "NewTree", key |-> IntKey(0), data |-> 0, err |-> NoError,
             branch |-> "none", pre |-> NewDeepTree]

\* t.Put(k, data) with a key of 1..MaxDeepKey; every call passes the same
\* payload
PutDeep ==
  \E k \in DeepKeys :
    /\ status = "ok"
    /\ Live(tree) # DOMAIN tree.nodes
    /\ PutReturn(IntKey(k), MaxPayload, Put(tree, IntKey(k), MaxPayload))

\* t.Delete(k) with a key of 1..MaxDeepKey
DeleteDeep ==
  \E k \in DeepKeys :
    /\ status = "ok"
    /\ DeleteReturn(IntKey(k), Delete(tree, IntKey(k)))

NextDeep == PutDeep \/ DeleteDeep

\* a client that calls Put and Delete with the keys 1..MaxDeepKey
SpecDeep == InitDeep /\ [][NextDeep]_vars

\* -------------------------------------------------- rotations by a client
\* t.RotateLeft(n) or t.RotateRight(n) that leaves the tree as t2; neither
\* returns a value
RotateReturn(op, n, t2) ==
  /\ tree' = t2
  /\ status' = "ok"
  /\ last' = [op |-> op, key |-> IntKey(0), data |-> 0, err |-> NoError,
              branch |-> "none", pre |-> tree, node |-> n]
  /\ UNCHANGED mapped

\* t.RotateLeft(x) on a node of the tree or on nil
RotateLeftOp ==
  \E x \in Live(tree) \cup {Nil} :
    /\ status = "ok"
    /\ RotateReturn("RotateLeft", x, RotateLeft(tree, x))

\* t.RotateRight(y) on a node of the tree or on nil
RotateRightOp ==
  \E y \in Live(tree) \cup {Nil} :
    /\ status = "ok"
    /\ RotateReturn("RotateRight", y, RotateRight(tree, y))

\* a Put of the client that builds the tree, before it starts to rotate
PutFirst ==
  /\ last.op \in {"NewTree", "Put"}
  /\ PutOp

NextRotate == PutFirst \/ RotateLeftOp \/ RotateRightOp

\* a client that builds a tree with Put and then rotates at its nodes
SpecRotate == Init /\ [][NextRotate]_vars

\* ------------------------------------------------------------ range query
\* n.Key.(int) >= x1 && n.Key.(int) <= x2
inRange(t, n, x1, x2) == t.nodes[n].Key >= x1 /\ t.nodes[n].Key <= x2

\* getSplitNode(n, x1, x2): [node, st]; n.Key on a nil n is a panic
RECURSIVE getSplitNode(_, _, _, _)
getSplitNode(t, n, x1, x2) ==
  IF n = Nil THEN [node |-> Nil, st |-> "panic"]
  ELSE IF inRange(t, n, x1, x2) THEN [node |-> n, st |-> "ok"]
  ELSE IF t.nodes[n].Left # Nil THEN getSplitNode(t, t.nodes[n].Left, x1, x2)
  ELSE IF t.nodes[n].Right # Nil THEN getSplitNode(t, t.nodes[n].Right, x1, x2)
  ELSE [node |-> Nil, st |-> "ok"]

\* (n *Node) isLeaf(), n not nil
isLeaf(t, n) == t.nodes[n].Right = Nil /\ t.nodes[n].Left = Nil

\* The loop under "Going left" from curNode with rangeNodes collected so
\* far: [rangeNodes, curNode, st].  curNode.isLeaf() on a nil curNode and
\* *curNode.Right on a nil Right are panics.
RECURSIVE goingLeft(_, _, _, _)
goingLeft(t, curNode, x1, rangeNodes) ==
  IF curNode = Nil THEN [rangeNodes |-> rangeNodes, curNode |-> curNode, st |-> "panic"]
  ELSE IF isLeaf(t, curNode)
  THEN [rangeNodes |-> rangeNodes, curNode |-> curNode, st |-> "ok"]
  ELSE IF x1 <= t.nodes[curNode].Key
  THEN IF t.nodes[curNode].Right = Nil
       THEN [rangeNodes |-> rangeNodes, curNode |-> curNode, st |-> "panic"]
       ELSE goingLeft(t, t.nodes[curNode].Left, x1,
                      Append(rangeNodes, t.nodes[curNode].Right))
  ELSE goingLeft(t, t.nodes[curNode].Right, x1, rangeNodes)

\* the loop under "Going right"
RECURSIVE goingRight(_, _, _, _)
goingRight(t, curNode, x2, rangeNodes) ==
  IF curNode = Nil THEN [rangeNodes |-> rangeNodes, curNode |-> curNode, st |-> "panic"]
  ELSE IF isLeaf(t, curNode)
  THEN [rangeNodes |-> rangeNodes, curNode |-> curNode, st |-> "ok"]
  ELSE IF t.nodes[curNode].Key <= x2
  THEN IF t.nodes[curNode].Left = Nil
       THEN [rangeNodes |-> rangeNodes, curNode |-> curNode, st |-> "panic"]
       ELSE goingRight(t, t.nodes[curNode].Right, x2,
                       Append(rangeNodes, t.nodes[curNode].Left))
  ELSE goingRight(t, t.nodes[curNode].Left, x2, rangeNodes)

\* appendInRange without the test of the key against the interval
appendInRange_Always(t, w, x1, x2) ==
  IF w.st # "ok" THEN w
  ELSE [w EXCEPT !.rangeNodes = Append(w.rangeNodes, w.curNode)]

\* after a loop: if curNode.Key is in [x1, x2], rangeNodes = append(rangeNodes, *curNode)
appendInRange(t, w, x1, x2) ==
  IF w.st # "ok" THEN w
  ELSE IF inRange(t, w.curNode, x1, x2)
  THEN [w EXCEPT !.rangeNodes = Append(w.rangeNodes, w.curNode)]
  ELSE w

\* from "curNode := Vs" to the end of the left walk
leftWalk(t, Vs, x1, x2) ==
  IF isLeaf(t, Vs)
  THEN appendInRange(t,
         goingLeft(t, Vs, x1, IF inRange(t, Vs, x1, x2) THEN <<Vs>> ELSE <<>>), x1, x2)
  ELSE appendInRange(t, goingLeft(t, t.nodes[Vs].Left, x1, <<>>), x1, x2)

\* keys = append(keys, node.Key.(int)) for each collected node; what the
\* call returns: [keys, st]
keysOf(t, w) ==
  IF w.st # "ok" THEN [keys |-> <<>>, st |-> w.st]
  ELSE [keys |-> [i \in 1..Len(w.rangeNodes) |-> t.nodes[w.rangeNodes[i]].Key],
        st |-> "ok"]

\* from "curNode = Vs.Right" to the return
rightWalk(t, Vs, x1, x2, w) ==
  IF w.st # "ok" THEN keysOf(t, w)
  ELSE keysOf(t, appendInRange(t, goingRight(t, t.nodes[Vs].Right, x2, w.rangeNodes),
                               x1, x2))

\* getValuesInRange after "Vs := getSplitNode(t.Root, x1, x2, debug)"
fromSplit(t, x1, x2, s) ==
  IF s.st # "ok" THEN [keys |-> <<>>, st |-> s.st]
  ELSE IF s.node = Nil THEN [keys |-> <<>>, st |-> "ok"]
  ELSE rightWalk(t, s.node, x1, x2, leftWalk(t, s.node, x1, x2))

getValuesInRange(t, x1, x2) == fromSplit(t, x1, x2, getSplitNode(t, t.Root, x1, x2))

\* ------------------------------------------------------- the sample tree
\* a Node literal of main: key, children, leaf flag; no parent, no colour
Lit(key, left, right, leaf) ==
  [ZeroNode EXCEPT !.Key = key, !.Left = left, !.Right = right, !.Leaf = leaf]

\* The tree main builds.  Addresses 1..12 are leaf3, leaf10, leaf19, leaf23,
\* leaf30, leaf37, leaf49, leaf59, leaf62, leaf70, leaf80, leaf100; 13..18 are
\* node3, node19, node30, node59, node70, node100; 19..22 are node10, node37,
\* node62, node89; 23 and 24 are node23 and node80; 25 is the root.
SampleTree ==
  [Root |-> 25,
   nodes |->
     << Lit(3, Nil, Nil, TRUE), Lit(10, Nil, Nil, TRUE), Lit(19, Nil, Nil, TRUE),
        Lit(23, Nil, Nil, TRUE), Lit(30, Nil, Nil, TRUE), Lit(37, Nil, Nil, TRUE),
        Lit(49, Nil, Nil, TRUE), Lit(59, Nil, Nil, TRUE), Lit(62, Nil, Nil, TRUE),
        Lit(70, Nil, Nil, TRUE), Lit(80, Nil, Nil, TRUE), Lit(100, Nil, Nil, TRUE),
        Lit(3, 1, 2, FALSE), Lit(19, 3, 4, FALSE), Lit(30, 5, 6, FALSE),
        Lit(59, 8, 9, FALSE), Lit(70, 10, 11, FALSE), Lit(100, 12, Nil, FALSE),
        Lit(10, 13, 14, FALSE), Lit(37, 15, 7, FALSE), Lit(62, 16, 17, FALSE),
        Lit(89, Nil, 18, FALSE),
        Lit(23, 19, 20, FALSE), Lit(80, 21, 22, FALSE),
        Lit(49, 23, 24, FALSE) >>]

\* tree.getValuesInRange(19, 77, false)
SampleLo == 19
SampleHi == 77

\* the interval ends tried on the sample tree: every key in it, and main's 77
SampleEnds == {SampleTree.nodes[n].Key : n \in DOMAIN SampleTree.nodes} \cup {SampleHi}

\* main: the sample tree is built
InitSample ==
  /\ tree = SampleTree
  /\ status = "ok"
  /\ mapped = [k \in Keys |-> 0]
  /\ last = [op |-> "main", x1 |-> 0, x2 |-> 0, keys |-> <<>>]

\* tree.getValuesInRange(x1, x2, false) that ends as r
QueryReturn(x1, x2, r) ==
  /\ status' = r.st
  /\ last' = [op |-> "getValuesInRange", x1 |-> x1, x2 |-> x2, keys |-> r.keys]
  /\ UNCHANGED <<tree, mapped>>

QueryOp ==
  \E x1 \in SampleEnds, x2 \in SampleEnds :
    /\ status = "ok"
    /\ x1 <= x2
    /\ QueryReturn(x1, x2, getValuesInRange(tree, x1, x2))

\* main, and further queries on the tree it built
SpecSample == InitSample /\ [][QueryOp]_vars

\* ---------------------------------------------------- red-black properties
\* black nodes on each path from n down to a nil position
RECURSIVE BlackCounts(_, _)
countNode(t, n, below) ==
  IF t.nodes[n].color = BLACK THEN {c + 1 : c \in below} ELSE below

BlackCounts(t, n) ==
  IF n = Nil THEN {0}
  ELSE countNode(t, n, BlackCounts(t, t.nodes[n].Left) \cup BlackCounts(t, t.nodes[n].Right))

RECURSIVE Subtree(_, _)
Subtree(t, n) ==
  IF n = Nil THEN {}
  ELSE {n} \cup Subtree(t, t.nodes[n].Left) \cup Subtree(t, t.nodes[n].Right)

RECURSIVE Inorder(_, _)
Inorder(t, n) ==
  IF n = Nil THEN <<>>
  ELSE Inorder(t, t.nodes[n].Left) \o <<t.nodes[n].Key>> \o Inorder(t, t.nodes[n].Right)

InTree(t) == Subtree(t, t.Root)

\* ------------------------------------------------------------------ claims
\* C1: after every completed Put or Delete, every path from the root to a
\* nil position passes through the same number of Black nodes.
C1_EqualBlackHeight ==
  status = "ok" => Cardinality(BlackCounts(tree, tree.Root)) = 1

\* C2: every Put and every Delete with an integer key runs to completion: no
\* fix-up loop repeats without changing anything and no nil pointer is
\* dereferenced.
C2_RunsToCompletion == status = "ok"

\* C3: after every completed Put or Delete the tree is a binary search tree:
\* under every node the keys to the left are smaller and the keys to the right
\* are greater, so the inorder key sequence is strictly increasing.
C3_BinarySearchTree ==
  status = "ok" =>
    /\ \A n \in InTree(tree) :
         /\ \A m \in Subtree(tree, tree.nodes[n].Left) :
              tree.nodes[m].Key < tree.nodes[n].Key
         /\ \A m \in Subtree(tree, tree.nodes[n].Right) :
              tree.nodes[m].Key > tree.nodes[n].Key
    /\ \A i \in 1..(Len(Inorder(tree, tree.Root)) - 1) :
         Inorder(tree, tree.Root)[i] < Inorder(tree, tree.Root)[i + 1]

\* a Delete of a node with two children whose successor lay deeper than its
\* right child has completed and left at least three keys
C3_Witness ==
  /\ status = "ok"
  /\ last.op = "Delete"
  /\ last.branch = "d"
  /\ Size(tree) >= 3

\* C4: after every completed Put or Delete no Red node has a Red child.
C4_NoRedRed ==
  status = "ok" =>
    \A n \in InTree(tree) :
      tree.nodes[n].color = RED =>
        /\ ~isRed(tree, tree.nodes[n].Left)
        /\ ~isRed(tree, tree.nodes[n].Right)

\* a completed Delete has left a Red node that has a child
C4_Witness ==
  /\ status = "ok"
  /\ last.op = "Delete"
  /\ Has(last.pre, last.key)
  /\ \E n \in InTree(tree) :
       tree.nodes[n].color = RED /\ tree.nodes[n].Left # Nil

\* C5: after every completed Put or Delete the root, if present, is Black.
C5_RootBlack ==
  (status = "ok" /\ tree.Root # Nil) => tree.nodes[tree.Root].color = BLACK

\* the key at the root has been deleted, its place was taken without a
\* fix-up (the position x was nil), and the tree is not empty
C5_Witness ==
  /\ status = "ok"
  /\ last.op = "Delete"
  /\ last.pre.Root # Nil
  /\ last.key.val = last.pre.nodes[last.pre.Root].Key
  /\ last.branch = "c"
  /\ last.pre.nodes[last.pre.nodes[last.pre.Root].Right].color = BLACK
  /\ tree.Root # Nil
  /\ tree.nodes[tree.Root].Right = Nil

\* C6: for every key k, Has(k) is true exactly when k was Put and not
\* Deleted since.
C6_HasIffMapped ==
  status = "ok" => \A k \in Keys : Has(tree, IntKey(k)) <=> (mapped[k] # 0)

\* a key that was present has been deleted while other keys stay mapped
C6_Witness ==
  /\ status = "ok"
  /\ last.op = "Delete"
  /\ Has(last.pre, last.key)
  /\ last.branch \in {"c", "d"}
  /\ \E k \in Keys : mapped[k] # 0

\* C7: Get(k) returns the payload of the most recent Put(k, _) not followed
\* by Delete(k); a Put on a key that is present leaves Size() as it was and
\* makes Get return the new payload.
C7_Overwrite ==
  status = "ok" =>
    /\ \A k \in Keys : Get(tree, IntKey(k)) = <<mapped[k] # 0, mapped[k]>>
    /\ (last.op = "Put" /\ Has(last.pre, last.key)) =>
         /\ Size(tree) = Size(last.pre)
         /\ Get(tree, last.key) = <<TRUE, last.data>>

\* a Put has overwritten a different payload of a key that is not at the root
C7_Witness ==
  /\ status = "ok"
  /\ last.op = "Put"
  /\ Get(last.pre, last.key)[1]
  /\ Get(last.pre, last.key)[2] # last.data
  /\ GetParent(last.pre, last.key)[2] # Nil

\* C8: after Delete(k) of a key that was present, Has(k) is false, Size() is
\* one less, and every other key is present as before with its payload.
C8_DeleteRemovesOne ==
  (status = "ok" /\ last.op = "Delete" /\ Has(last.pre, last.key)) =>
    /\ ~Has(tree, last.key)
    /\ Size(tree) = Size(last.pre) - 1
    /\ \A k \in Keys \ {last.key.val} : Get(tree, IntKey(k)) = Get(last.pre, IntKey(k))

\* a node with two children has been deleted from a tree of at least four keys
C8_Witness ==
  /\ status = "ok"
  /\ last.op = "Delete"
  /\ last.branch = "d"
  /\ Size(last.pre) >= 4

\* C9: Delete(k) of a key that is not in the tree changes nothing: the root
\* and every field of every node are as before.
C9_DeleteAbsentNoOp ==
  (last.op = "Delete" /\ last.key.kind = "int" /\ ~Has(last.pre, last.key)) =>
    /\ status = "ok"
    /\ last.branch = "absent"
    /\ tree = last.pre

\* a Delete of an absent key on a tree that holds other keys
C9_Witness ==
  /\ last.op = "Delete"
  /\ last.key.kind = "int"
  /\ ~Has(last.pre, last.key)
  /\ Size(last.pre) >= 2

\* C10: a key that fails validation makes the call a no-op: Put returns the
\* NilKey error for the nil key and the DisallowedKeyKind error for a
\* disallowed kind and leaves the tree as it was, Delete leaves the tree as
\* it was, and Get, Has and GetParent report not-found.
C10_InvalidKeyNoOp ==
  /\ \A key \in InvalidKeys :
       /\ Get(tree, key) = <<FALSE, 0>>
       /\ ~Has(tree, key)
       /\ GetParent(tree, key) = <<FALSE, Nil, NODIR>>
  /\ (last.key \in InvalidKeys) =>
       /\ status = "ok"
       /\ tree = last.pre
       /\ (last.op = "Put") =>
            last.err = IF last.key.kind = "nil" THEN ErrorKeyIsNil ELSE ErrorKeyDisallowed

\* a Put with the nil key has returned on a tree that holds keys
C10_Witness ==
  /\ last.op = "Put"
  /\ last.key.kind = "nil"
  /\ last.err = ErrorKeyIsNil
  /\ Size(tree) >= 2

\* ------------------------------------------------- range query properties
\* the interval ends tried on a tree built by Put and Delete
QueryEnds == 0..(MaxKey + 1)

\* s is strictly increasing
Ascending(s) == \A i \in 1..(Len(s) - 1) : s[i] < s[i + 1]

\* no node of t has its key in [x1, x2]
NoKeyIn(t, x1, x2) == \A n \in InTree(t) : ~inRange(t, n, x1, x2)

\* C11: whenever getValuesInRange(lo, hi) with lo <= hi returns, the keys it
\* returns are in ascending key order, none of them twice.
C11_AscendingResult ==
  status = "ok" =>
    \A x1 \in QueryEnds, x2 \in QueryEnds :
      (x1 <= x2 /\ getValuesInRange(tree, x1, x2).st = "ok") =>
        Ascending(getValuesInRange(tree, x1, x2).keys)

\* C12: on every non-empty tree built by Put and Delete, and every interval
\* lo <= hi, getValuesInRange runs to completion: it never dereferences an
\* absent child.
C12_QueryCompletes ==
  (status = "ok" /\ tree.Root # Nil) =>
    \A x1 \in QueryEnds, x2 \in QueryEnds :
      x1 <= x2 => getValuesInRange(tree, x1, x2).st = "ok"

\* C13: on every tree, the empty tree included, and every interval that holds
\* no key of the tree, getValuesInRange finds no split node and returns the
\* empty list.
C13_EmptyResult ==
  status = "ok" =>
    \A x1 \in QueryEnds, x2 \in QueryEnds :
      (x1 <= x2 /\ NoKeyIn(tree, x1, x2)) =>
        /\ getSplitNode(tree, tree.Root, x1, x2) = [node |-> Nil, st |-> "ok"]
        /\ getValuesInRange(tree, x1, x2) = [keys |-> <<>>, st |-> "ok"]

\* the non-leaf nodes of the left walk from cur at which x1 <= Key, so that
\* the walk collects at them
RECURSIVE leftTurns(_, _, _)
leftTurns(t, cur, x1) ==
  IF cur = Nil THEN {}
  ELSE IF isLeaf(t, cur) THEN {}
  ELSE IF x1 <= t.nodes[cur].Key THEN {cur} \cup leftTurns(t, t.nodes[cur].Left, x1)
  ELSE leftTurns(t, t.nodes[cur].Right, x1)

\* the non-leaf nodes of the right walk from cur at which Key <= x2
RECURSIVE rightTurns(_, _, _)
rightTurns(t, cur, x2) ==
  IF cur = Nil THEN {}
  ELSE IF isLeaf(t, cur) THEN {}
  ELSE IF t.nodes[cur].Key <= x2 THEN {cur} \cup rightTurns(t, t.nodes[cur].Right, x2)
  ELSE rightTurns(t, t.nodes[cur].Left, x2)

\* every key of the subtree under n is among the keys
AllListed(t, n, keys) ==
  \A m \in Subtree(t, n) : \E i \in 1..Len(keys) : keys[i] = t.nodes[m].Key

\* the subtrees the two walks from the split node Vs pass by are listed whole
WholeSubtrees(t, Vs, x1, x2, keys) ==
  Vs # Nil =>
    /\ \A c \in leftTurns(t, IF isLeaf(t, Vs) THEN Vs ELSE t.nodes[Vs].Left, x1) :
         AllListed(t, t.nodes[c].Right, keys)
    /\ \A c \in rightTurns(t, t.nodes[Vs].Right, x2) :
         AllListed(t, t.nodes[c].Left, keys)

\* C17: on the sample tree of main the query [19, 77] returns exactly the
\* list 37, 23, 19, 59, 70, in that order, whenever it is made.
C17_SampleQuery ==
  (last.op = "getValuesInRange" /\ last.x1 = SampleLo /\ last.x2 = SampleHi) =>
    /\ status = "ok"
    /\ last.keys = <<37, 23, 19, 59, 70>>

\* main's query has been made on the sample tree and has returned five keys
C17_Witness ==
  /\ tree = SampleTree
  /\ last.op = "getValuesInRange"
  /\ last.x1 = SampleLo
  /\ last.x2 = SampleHi
  /\ Len(last.keys) = 5

\* C18: when a range query returns, every key of the right subtree of each
\* non-leaf node of the left walk with lo <= key is in the returned list,
\* and every key of the left subtree of each non-leaf node of the right walk
\* with key <= hi.
C18_SubtreesCollected ==
  (last.op = "getValuesInRange" /\ status = "ok") =>
    WholeSubtrees(tree, getSplitNode(tree, tree.Root, last.x1, last.x2).node,
                  last.x1, last.x2, last.keys)

\* C19: Put(k, v) on a key already in the tree changes no structure: the
\* root, every node's key, colour, child links and parent link and every
\* other node's payload are as before the call; only the payload of the node
\* holding k is changed, to v.
C19_OverwriteInPlace ==
  (last.op = "Put" /\ last.key.kind = "int" /\ Has(last.pre, last.key)) =>
    /\ status = "ok"
    /\ last.err = NoError
    /\ tree = SetField(last.pre, getNode(last.pre, last.key)[2], "payload", last.data)

\* a Put has given a new payload to a node that is not the root and has a
\* child
C19_Witness ==
  /\ status = "ok"
  /\ last.op = "Put"
  /\ Has(last.pre, last.key)
  /\ getNode(last.pre, last.key)[2] # last.pre.Root
  /\ ~isLeaf(last.pre, getNode(last.pre, last.key)[2])
  /\ last.pre.nodes[getNode(last.pre, last.key)[2]].payload # last.data

\* --------------------------------------------------- rotation properties
\* the root has no parent and every child's parent link points to the node
\* that holds it
WellLinked(t) ==
  /\ t.Root # Nil => t.nodes[t.Root].parent = Nil
  /\ \A n \in InTree(t) :
       /\ t.nodes[n].Left # Nil => t.nodes[t.nodes[n].Left].parent = n
       /\ t.nodes[n].Right # Nil => t.nodes[t.nodes[n].Right].parent = n

\* the last call was RotateLeft(x) on a node x that had a right child
RotatedLeft ==
  /\ last.op = "RotateLeft"
  /\ last.node # Nil
  /\ last.pre.nodes[last.node].Right # Nil

\* the last call was RotateRight(y) on a node y that had a left child
RotatedRight ==
  /\ last.op = "RotateRight"
  /\ last.node # Nil
  /\ last.pre.nodes[last.node].Left # Nil

\* the child that the last rotation moved up
Promoted ==
  IF last.op = "RotateLeft" THEN last.pre.nodes[last.node].Right
  ELSE last.pre.nodes[last.node].Left

\* t has the nodes of pre, each with its key, payload and colour, and the
\* same inorder key sequence
SameContent(pre, t) ==
  /\ InTree(t) = InTree(pre)
  /\ \A n \in InTree(pre) :
       /\ t.nodes[n].Key = pre.nodes[n].Key
       /\ t.nodes[n].payload = pre.nodes[n].payload
       /\ t.nodes[n].color = pre.nodes[n].color
  /\ Inorder(t, t.Root) = Inorder(pre, pre.Root)

\* C14: RotateLeft(x) on a node with a right child, or RotateRight(y) on a
\* node with a left child, in a well-linked binary search tree keeps the set
\* of nodes, each node's key, payload and colour, and the inorder key
\* sequence; afterwards every child's parent link points to the node that
\* holds it, and the promoted child is the root if the rotated node was.
C14_RotationFrame ==
  ((RotatedLeft \/ RotatedRight) /\ WellLinked(last.pre)
     /\ Ascending(Inorder(last.pre, last.pre.Root))) =>
    /\ SameContent(last.pre, tree)
    /\ WellLinked(tree)
    /\ last.pre.Root = last.node => tree.Root = Promoted

\* a rotation has been made at a node that was not the root and whose
\* promoted child had an inner subtree, which changed sides
C14_Witness ==
  /\ RotatedLeft
  /\ WellLinked(last.pre)
  /\ last.pre.Root # last.node
  /\ last.pre.nodes[Promoted].Left # Nil
  /\ tree.nodes[last.node].Right = last.pre.nodes[Promoted].Left

\* C15: RotateLeft(x) with x nil or without a right child, and RotateRight(y)
\* with y nil or without a left child, leave the whole tree as it was and
\* raise no error.
C15_RotationNoOp ==
  ((last.op \in {"RotateLeft", "RotateRight"}) /\ ~RotatedLeft /\ ~RotatedRight) =>
    /\ tree = last.pre
    /\ status = "ok"

\* RotateLeft has been called on a node that has a left child but no right
\* child
C15_Witness ==
  /\ last.op = "RotateLeft"
  /\ last.node # Nil
  /\ last.pre.nodes[last.node].Right = Nil
  /\ last.pre.nodes[last.node].Left # Nil

\* C20: in a well-linked tree, RotateLeft(x) on a node with a right child y
\* followed by RotateRight(y) gives back the tree exactly, and RotateRight(y)
\* on a node with a left child followed by RotateLeft on the promoted node
\* does too.
C20_RotationsInverse ==
  /\ (RotatedLeft /\ WellLinked(last.pre)) => RotateRight(tree, Promoted) = last.pre
  /\ (RotatedRight /\ WellLinked(last.pre)) => RotateLeft(tree, Promoted) = last.pre

\* RotateRight has been made at a node under a parent, moving an inner
\* subtree, and the tree differs from the one before
C20_Witness ==
  /\ RotatedRight
  /\ WellLinked(last.pre)
  /\ last.pre.nodes[last.node].parent # Nil
  /\ last.pre.nodes[Promoted].Right # Nil
  /\ tree # last.pre

\* ------------------------------------------------------- height property
\* the number of nodes on the longest path from n down to a nil position
RECURSIVE Height(_, _)
Height(t, n) ==
  IF n = Nil THEN 0
  ELSE IF Height(t, t.nodes[n].Left) >= Height(t, t.nodes[n].Right)
  THEN 1 + Height(t, t.nodes[n].Left)
  ELSE 1 + Height(t, t.nodes[n].Right)

\* C16: after any sequence of Put and Delete calls that leaves n keys, the
\* height h of the tree satisfies h <= 2*log2(n+1), that is
\* 2^h <= (n+1)^2.
C16_BoundedHeight ==
  status = "ok" =>
    2 ^ Height(tree, tree.Root) <= (Size(tree) + 1) * (Size(tree) + 1)

\* ------------------------------------------------- parent-link property
\* C21: after every completed Put or Delete the root has no parent, every
\* child's parent link points to the node that holds it, and no node outside
\* the tree (a deleted one) can be reached from the root by any link.
C21_ParentLinks ==
  status = "ok" =>
    /\ WellLinked(tree)
    /\ Live(tree) = InTree(tree)
    /\ (last.op = "Delete" /\ last.key.kind = "int" /\ Has(last.pre, last.key)) =>
         getNode(last.pre, last.key)[2] \notin Live(tree)

\* a Delete has removed a node with two children whose successor lay
\* deeper than its right child and had a right child of its own, which
\* moved up into the successor's place
C21_Witness ==
  /\ status = "ok"
  /\ last.op = "Delete"
  /\ last.branch = "d"
  /\ last.pre.nodes[getMinimum(last.pre,
       last.pre.nodes[getNode(last.pre, last.key)[2]].Right)].Right # Nil
  /\ WellLinked(tree)

====
